---------------------------- MODULE Spec2Model ----------------------------
(***************************************************************************)
(* Model of leaders.js: the table builder makeTable and the page-load      *)
(* fetch chain that binds the leaders feed to the four display regions.    *)
(***************************************************************************)
EXTENDS Integers, Sequences, FiniteSets, TLC

VARIABLES
  \* ---- the page-load fetch chain (leaders.js 37-120) ----
  pc,         \* position of the promise chain
  data,       \* the parsed feed document handed to the second .then
  src,        \* the handler's locals ppg, pts, threes, teamOff (52-55)
  present,    \* ids of the elements that are in the document
  wrapped,    \* ids of the elements that are descendants of leaders-container
  content,    \* id -> child nodes of that element
  \* ---- one activation of makeTable (leaders.js 1-35) ----
  mtpc,       \* position inside makeTable
  headers,    \* argument `headers`
  rows,       \* argument `rows`
  headRow,    \* the <tr> of the <thead>: texts of its <th> cells
  tbody,      \* the <tbody>: its <tr> rows appended so far
  tr,         \* the <tr> under construction: texts of its <td> cells
  hi,         \* index of the header headers.forEach is visiting
  ri,         \* index of the row the outer forEach is visiting
  ci,         \* index of the cell the inner forEach is visiting
  result,     \* the value returned by the last completed call
  golden      \* results of an earlier completed call, kept for comparison

pageVars == <<pc, data, src, present, wrapped, content>>
mtVars   == <<mtpc, headers, rows, headRow, tbody, tr, hi, ri, ci, result>>
vars     == <<pc, data, src, present, wrapped, content,
              mtpc, headers, rows, headRow, tbody, tr, hi, ri, ci, result, golden>>

-----------------------------------------------------------------------------
(* Bounds of the model *)

MaxCols == 2        \* longest header sequence handed to makeTable directly
MaxRows == 2        \* most rows handed to makeTable directly
MaxCells == 3       \* most cells, over all rows, handed to makeTable directly
MaxRepeat == 1      \* the same three bounds where calls are compared pairwise
MaxRecords == 2     \* most records in the whole feed document

-----------------------------------------------------------------------------
(* JavaScript values.  A number is held in tenths (234 is 23.4), which      *)
(* covers every number with at most one decimal; a missing property reads   *)
(* as undefined.                                                            *)

Num(n) == [t |-> "number", n |-> n, s |-> ""]
Str(s) == [t |-> "string", n |-> 0, s |-> s]
Undef  == [t |-> "undefined", n |-> 0, s |-> ""]

Digit(d) ==
  CASE d = 0 -> "0" [] d = 1 -> "1" [] d = 2 -> "2" [] d = 3 -> "3"
    [] d = 4 -> "4" [] d = 5 -> "5" [] d = 6 -> "6" [] d = 7 -> "7"
    [] d = 8 -> "8" [] d = 9 -> "9"

RECURSIVE IntStr(_)
IntStr(n) == IF n < 10 THEN Digit(n) ELSE IntStr(n \div 10) \o Digit(n % 10)

\* Number::toString of n/10
NumStr(n) ==
  IF n % 10 = 0 THEN IntStr(n \div 10)
  ELSE IntStr(n \div 10) \o "." \o Digit(n % 10)

\* JsString(v), as a template literal `${v}` applies it
JsString(v) ==
  CASE v.t = "number" -> NumStr(v.n)
    [] v.t = "string" -> v.s
    [] v.t = "undefined" -> "undefined"

\* ToBoolean(v), as `&&` applies it
Truthy(v) ==
  CASE v.t = "number" -> v.n # 0
    [] v.t = "string" -> v.s # ""
    [] v.t = "undefined" -> FALSE

\* Number.prototype.toFixed(1) of n/10
ToFixed1(n) == IntStr(n \div 10) \o "." \o Digit(n % 10)

\* The text an element holds after `el.textContent = v`.  textContent is a
\* nullable DOMString: undefined converts to null, which sets the empty string.
TextContent(v) ==
  CASE v.t = "number" -> NumStr(v.n)
    [] v.t = "string" -> v.s
    [] v.t = "undefined" -> ""

-----------------------------------------------------------------------------
(* makeTable (leaders.js 1-35) *)

\* A table element: the texts of the header row's cells and, per body row,
\* the texts of its cells.  (Styles carry no behaviour and are left out.)
Table(h, b) == [head |-> h, body |-> b]

\* lines 10-15: a <th> whose text is h, appended to headRow
AppendTh(hr, h) == Append(hr, TextContent(h))

\* AppendTd with the cell put in front of the row instead of behind it
AppendTdFront(r, cell) == <<TextContent(cell)>> \o r

\* AppendTd that enforces the column count: cells beyond the header are dropped
AppendTdClipped(r, cell) ==
  IF Len(r) >= Len(headers) THEN r ELSE Append(r, TextContent(cell))

\* lines 24-28: a <td> whose text is cell, appended to tr
AppendTd(r, cell) == Append(r, TextContent(cell))

\* lines 9-16: headers.forEach
RECURSIVE HeadCells(_, _)
HeadCells(hs, hr) ==
  IF hs = <<>> THEN hr ELSE HeadCells(Tail(hs), AppendTh(hr, Head(hs)))

\* lines 23-29: row.forEach
RECURSIVE RowCells(_, _)
RowCells(row, r) ==
  IF row = <<>> THEN r ELSE RowCells(Tail(row), AppendTd(r, Head(row)))

\* lines 21-31: rows.forEach
RECURSIVE BodyRows(_, _)
BodyRows(rs, tb) ==
  IF rs = <<>> THEN tb ELSE BodyRows(Tail(rs), Append(tb, RowCells(Head(rs), <<>>)))

\* makeTable as its callers see it: the returned element
MakeTable(hs, rs) == Table(HeadCells(hs, <<>>), BodyRows(rs, <<>>))

-----------------------------------------------------------------------------
(* makeTable, statement by statement *)

\* MtCall with headRow hoisted out of the function: it is created once and
\* every call appends to the same row
MtCallHoisted(H, R) ==
  /\ mtpc \in {"idle", "returned"}
  /\ mtpc' = "head"
  /\ headers' = H
  /\ rows' = R
  /\ headRow' = headRow
  /\ tbody' = <<>>
  /\ tr' = <<>>
  /\ hi' = 1
  /\ ri' = 1
  /\ ci' = 1
  /\ result' = <<>>
  /\ UNCHANGED pageVars

\* lines 1-8: entry; table, thead and headRow are created empty
MtCall(H, R) ==
  /\ mtpc \in {"idle", "returned"}
  /\ mtpc' = "head"
  /\ headers' = H
  /\ rows' = R
  /\ headRow' = <<>>
  /\ tbody' = <<>>
  /\ tr' = <<>>
  /\ hi' = 1
  /\ ri' = 1
  /\ ci' = 1
  /\ result' = <<>>
  /\ UNCHANGED pageVars

\* lines 9-16: one turn of headers.forEach
MtHeadCell ==
  /\ mtpc = "head"
  /\ hi <= Len(headers)
  /\ headRow' = AppendTh(headRow, headers[hi])
  /\ hi' = hi + 1
  /\ UNCHANGED <<mtpc, headers, rows, tbody, tr, ri, ci, result, pageVars, golden>>

\* lines 17-20: headers.forEach is over; thead joins the table, tbody is created
MtHeadDone ==
  /\ mtpc = "head"
  /\ hi > Len(headers)
  /\ mtpc' = "body"
  /\ tbody' = <<>>
  /\ UNCHANGED <<headers, rows, headRow, tr, hi, ri, ci, result, pageVars, golden>>

\* lines 21-22: one turn of rows.forEach begins with a fresh <tr>
MtRowStart ==
  /\ mtpc = "body"
  /\ ri <= Len(rows)
  /\ mtpc' = "row"
  /\ tr' = <<>>
  /\ ci' = 1
  /\ UNCHANGED <<headers, rows, headRow, tbody, hi, ri, result, pageVars, golden>>

\* lines 23-29: one turn of row.forEach
MtCell ==
  /\ mtpc = "row"
  /\ ci <= Len(rows[ri])
  /\ tr' = AppendTd(tr, rows[ri][ci])
  /\ ci' = ci + 1
  /\ UNCHANGED <<mtpc, headers, rows, headRow, tbody, hi, ri, result, pageVars, golden>>

\* line 30: row.forEach is over; the <tr> joins tbody
MtRowEnd ==
  /\ mtpc = "row"
  /\ ci > Len(rows[ri])
  /\ mtpc' = "body"
  /\ tbody' = Append(tbody, tr)
  /\ ri' = ri + 1
  /\ UNCHANGED <<headers, rows, headRow, tr, hi, ci, result, pageVars, golden>>

\* MtReturn that also inserts the table into the first leaderboard region
MtReturnAttached ==
  /\ mtpc = "body"
  /\ ri > Len(rows)
  /\ mtpc' = "returned"
  /\ result' = <<[head |-> headRow, body |-> tbody]>>
  /\ content' = [content EXCEPT !["leaders-ppg"] =
                   Append(@, [kind |-> "table", text |-> "",
                              table |-> [head |-> headRow, body |-> tbody]])]
  /\ UNCHANGED <<headers, rows, headRow, tbody, tr, hi, ri, ci, pc, data, src,
                 present, wrapped, golden>>

\* lines 32-34: rows.forEach is over; tbody joins the table, which is returned
MtReturn ==
  /\ mtpc = "body"
  /\ ri > Len(rows)
  /\ mtpc' = "returned"
  /\ result' = <<Table(headRow, tbody)>>
  /\ UNCHANGED <<headers, rows, headRow, tbody, tr, hi, ri, ci, pageVars, golden>>

-----------------------------------------------------------------------------
(* The page: the elements leaders.js looks up by id *)

UpdatedId   == "leaders-updated"
ContainerId == "leaders-container"
Sections    == {"ppg", "pts", "threes", "teams"}
RegionId(s) == "leaders-" \o s
RegionIds   == {RegionId(s) : s \in Sections}
Ids         == RegionIds \cup {UpdatedId, ContainerId}

ErrorMessage == "Error loading leaders data."

NoTable      == [head |-> <<>>, body |-> <<>>]
TextNode(s)  == [kind |-> "text", text |-> s, table |-> NoTable]
TableNode(t) == [kind |-> "table", text |-> "", table |-> t]

\* the children of an element after `el.textContent = v`
SetTextContent(v) ==
  IF TextContent(v) = "" THEN <<>> ELSE <<TextNode(TextContent(v))>>

-----------------------------------------------------------------------------
(* The feed document *)

Keys == {"player", "team", "ppg", "pts", "gp", "threes", "pts_for"}

Good1 ==
  [player |-> Str("A. Example"), team |-> Str("XYZ"), ppg |-> Num(234),
   pts |-> Num(8120), gp |-> Num(350), threes |-> Num(410), pts_for |-> Num(8120)]
Good2 ==
  [player |-> Str("B. Sample"), team |-> Str("ABC"), ppg |-> Num(200),
   pts |-> Num(6000), gp |-> Num(300), threes |-> Num(70), pts_for |-> Num(6000)]

\* a record that lacks key k: reading p[k] yields undefined
Without(p, k) == [p EXCEPT ![k] = Undef]

\* the arrays of at most n records drawn from P
ArraysUpTo(P, n) == UNION {[1..k -> P] : k \in 0..n}

\* an optional array-valued field
Absent     == [has |-> FALSE, arr |-> <<>>]
Field(a)   == [has |-> TRUE, arr |-> a]

NoPlayerLeaders ==
  [has |-> FALSE, points_per_game |-> Absent, points_total |-> Absent,
   three_pointers_made |-> Absent]
NoTeamLeaders == [has |-> FALSE, offense_points_per_game |-> Absent]

\* what r.json() yields for the body `null`
NullDoc ==
  [isNull |-> TRUE, generated_at |-> Undef,
   player_leaders |-> NoPlayerLeaders, team_leaders |-> NoTeamLeaders]

NoSrc == [s \in Sections |-> <<>>]

-----------------------------------------------------------------------------
(* The second .then handler's pure parts *)

\* lines 52-55: `parent?.field || []`
LeaderArray(parent, f) ==
  IF parent.has /\ parent[f].has THEN parent[f].arr ELSE <<>>

\* lines 52-55 together
Defaults(d) ==
  [s \in Sections |->
     CASE s = "ppg"    -> LeaderArray(d.player_leaders, "points_per_game")
       [] s = "pts"    -> LeaderArray(d.player_leaders, "points_total")
       [] s = "threes" -> LeaderArray(d.player_leaders, "three_pointers_made")
       [] s = "teams"  -> LeaderArray(d.team_leaders, "offense_points_per_game")]

\* lines 68, 82, 96, 110: the header arrays
HeadersOf(s) ==
  CASE s = "ppg" ->
         <<Str("#"), Str("Player"), Str("Team"), Str("PPG"), Str("Total Pts"), Str("GP")>>
    [] s = "pts" ->
         <<Str("#"), Str("Player"), Str("Team"), Str("Total Pts"), Str("GP")>>
    [] s = "threes" ->
         <<Str("#"), Str("Player"), Str("Team"), Str("3PM"), Str("GP")>>
    [] s = "teams" ->
         <<Str("#"), Str("Team"), Str("PPG"), Str("Total Pts"), Str("GP")>>

\* `${v} unit`
Templ(v, unit) == Str(JsString(v) \o " " \o unit)

\* `${v.toFixed(1)} ppg`, where v is a number
FixedPpg(v) == Str(ToFixed1(v.n) \o " ppg")

\* whether the map callback of section s throws on record p:
\* p.ppg.toFixed is a TypeError unless p.ppg is a number (lines 63, 105)
Throws(s, p) == s \in {"ppg", "teams"} /\ p.ppg.t # "number"

\* lines 59-66, 74-80, 88-94, 102-108: the row built from the k-th record
RowOf(s, p, k) ==
  CASE s = "ppg" ->
         <<Num(10 * k), p.player, p.team, FixedPpg(p.ppg), Templ(p.pts, "pts"),
           Templ(p.gp, "gp")>>
    [] s = "pts" ->
         <<Num(10 * k), p.player, p.team, Templ(p.pts, "pts"), Templ(p.gp, "gp")>>
    [] s = "threes" ->
         <<Num(10 * k), p.player, p.team, p.threes, Templ(p.gp, "gp")>>
    [] s = "teams" ->
         <<Num(10 * k), p.team, FixedPpg(p.ppg), Templ(p.pts_for, "pts"),
           Templ(p.gp, "gp")>>

\* Array.prototype.map over the section's array
MapThrows(s, arr) == \E k \in 1..Len(arr) : Throws(s, arr[k])

\* MapRows that walks the array from its end (as a descending re-sort would)
MapRowsReversed(s, arr) ==
  [k \in 1..Len(arr) |-> RowOf(s, arr[Len(arr) + 1 - k], k)]

MapRows(s, arr) == [k \in 1..Len(arr) |-> RowOf(s, arr[k], k)]

-----------------------------------------------------------------------------
(* Inputs of the page load *)

\* the fields the feed may leave out (section 6 of the format: all optional)
OptionalFields ==
  {"generated_at", "player_leaders", "team_leaders", "points_per_game",
   "points_total", "three_pointers_made", "offense_points_per_game"}

\* which fields a document leaves out: none, one of them, or all (the document {})
AbsentSets == {{}} \cup {{f} : f \in OptionalFields} \cup {OptionalFields}

Opt(ab, f, a) == IF f \in ab THEN Absent ELSE Field(a)

\* the document that leaves out the fields ab and otherwise carries the arrays
Doc(ab, a1, a2, a3, a4) ==
  [isNull |-> FALSE,
   generated_at |-> IF "generated_at" \in ab THEN Undef ELSE Str("2024-01-15"),
   player_leaders |->
     IF "player_leaders" \in ab THEN NoPlayerLeaders
     ELSE [has |-> TRUE,
           points_per_game |-> Opt(ab, "points_per_game", a1),
           points_total |-> Opt(ab, "points_total", a2),
           three_pointers_made |-> Opt(ab, "three_pointers_made", a3)],
   team_leaders |->
     IF "team_leaders" \in ab THEN NoTeamLeaders
     ELSE [has |-> TRUE,
           offense_points_per_game |-> Opt(ab, "offense_points_per_game", a4)]]

\* the documents over the records P, with at most MaxRecords records in all
DocsOver(P) ==
  UNION { UNION { UNION { UNION {
    { Doc(ab, a1, a2, a3, a4) : ab \in AbsentSets }
    : a4 \in ArraysUpTo(P, MaxRecords - Len(a1) - Len(a2) - Len(a3)) }
    : a3 \in ArraysUpTo(P, MaxRecords - Len(a1) - Len(a2)) }
    : a2 \in ArraysUpTo(P, MaxRecords - Len(a1)) }
    : a1 \in ArraysUpTo(P, MaxRecords) }

\* the documents r.json() can resolve with: well-formed records, and records
\* that lack one key
Docs ==
  {NullDoc} \cup UNION { DocsOver({Good1, Good2, Without(Good1, k)}) : k \in Keys }

\* what a region holds before the script runs
Placeholder == <<TextNode("Loading...")>>

\* the pages the script can run on: the whole page or one lacking a single
\* element; the container either encloses the regions or stands beside them
InitPage ==
  /\ \E missing \in {{}} \cup {{i} : i \in Ids} :
       present = Ids \ missing
  /\ \E wraps \in BOOLEAN :
       wrapped = IF wraps /\ ContainerId \in present THEN RegionIds \cap present ELSE {}
  /\ content = [i \in Ids |-> IF i \in RegionIds \cap present THEN Placeholder ELSE <<>>]

-----------------------------------------------------------------------------
(* The promise chain, leaders.js 37-120 *)

\* line 37: the request fails (network error): the chain rejects
FetchReject ==
  /\ pc = "fetch"
  /\ pc' = "catch"
  /\ UNCHANGED <<data, src, present, wrapped, content, mtVars, golden>>

\* line 37: the request gets a response
FetchResolve ==
  /\ pc = "fetch"
  /\ pc' = "json"
  /\ UNCHANGED <<data, src, present, wrapped, content, mtVars, golden>>

\* line 38: the body is not JSON: r.json() rejects
JsonReject ==
  /\ pc = "json"
  /\ pc' = "catch"
  /\ UNCHANGED <<data, src, present, wrapped, content, mtVars, golden>>

\* line 38: r.json() resolves with one of the documents
JsonResolve ==
  /\ pc = "json"
  /\ pc' = "then"
  /\ data' \in Docs
  /\ UNCHANGED <<src, present, wrapped, content, mtVars, golden>>

\* lines 39-55: the timestamp, the element lookups and the four arrays.
\* Reading a property of null throws (line 42 or 52) before anything is written.
ThenStart ==
  /\ pc = "then"
  /\ IF data.isNull
       THEN /\ pc' = "catch"
            /\ UNCHANGED <<src, content>>
       ELSE /\ pc' = "ppg"
            /\ src' = Defaults(data)
            /\ content' =
                 IF UpdatedId \in present /\ Truthy(data.generated_at)
                   THEN [content EXCEPT ![UpdatedId] = SetTextContent(data.generated_at)]
                   ELSE content
  /\ UNCHANGED <<data, present, wrapped, mtVars, golden>>

\* lines 57-70 (and 72-84, 86-98, 100-112): one section.  innerHTML = "" runs
\* before map; a throw inside map leaves the region empty and rejects the chain.
RenderSection(s, next) ==
  /\ pc = s
  /\ IF RegionId(s) \notin present
       THEN /\ pc' = next
            /\ UNCHANGED content
       ELSE IF MapThrows(s, src[s])
         THEN /\ pc' = "catch"
              /\ content' = [content EXCEPT ![RegionId(s)] = <<>>]
         ELSE /\ pc' = next
              /\ content' = [content EXCEPT ![RegionId(s)] =
                    <<TableNode(MakeTable(HeadersOf(s), MapRows(s, src[s])))>>]
  /\ UNCHANGED <<data, src, present, wrapped, mtVars, golden>>

SectionPpg    == RenderSection("ppg", "pts")
SectionPts    == RenderSection("pts", "threes")
SectionThrees == RenderSection("threes", "teams")
SectionTeams  == RenderSection("teams", "done")

\* lines 114-120: the rejection handler.  Setting the container's textContent
\* replaces all its children, so the elements inside it leave the document.
Catch ==
  /\ pc = "catch"
  /\ pc' = "failed"
  /\ IF ContainerId \in present
       THEN /\ content' = [content EXCEPT ![ContainerId] = <<TextNode(ErrorMessage)>>]
            /\ present' = present \ wrapped
       ELSE UNCHANGED <<content, present>>
  /\ UNCHANGED <<data, src, wrapped, mtVars, golden>>

-----------------------------------------------------------------------------
(* Initial states and the specification of the page load *)

InitMt ==
  /\ mtpc = "idle"
  /\ headers = <<>>
  /\ rows = <<>>
  /\ headRow = <<>>
  /\ tbody = <<>>
  /\ tr = <<>>
  /\ hi = 1
  /\ ri = 1
  /\ ci = 1
  /\ result = <<>>
  /\ golden = <<>>

Init ==
  /\ pc = "fetch"
  /\ data = NullDoc
  /\ src = NoSrc
  /\ InitPage
  /\ InitMt

Next ==
  \/ FetchReject
  \/ FetchResolve
  \/ JsonReject
  \/ JsonResolve
  \/ ThenStart
  \/ SectionPpg
  \/ SectionPts
  \/ SectionThrees
  \/ SectionTeams
  \/ Catch

Spec == Init /\ [][Next]_vars

-----------------------------------------------------------------------------
(* makeTable called directly *)

HeaderPool == {Str("#"), Str("Team")}
CellPool   == {Num(234), Str("XYZ"), Undef}

SeqsUpTo(S, n) == UNION {[1..k -> S] : k \in 0..n}

\* the row sequences of at most k rows holding at most c cells in all
RECURSIVE RowSeqs(_, _)
RowSeqs(k, c) ==
  IF k = 0 THEN {<<>>}
  ELSE {<<>>} \cup
       UNION { {<<row>> \o rest : rest \in RowSeqs(k - 1, c - Len(row))}
               : row \in SeqsUpTo(CellPool, c) }

\* a caller invokes makeTable(H, R), once
MtCallDirect ==
  /\ mtpc = "idle"
  /\ \E H \in SeqsUpTo(HeaderPool, MaxCols), R \in RowSeqs(MaxRows, MaxCells) :
       MtCall(H, R)
  /\ UNCHANGED golden

\* the whole page, the container beside the regions, the script not yet run
InitMakeTable ==
  /\ pc = "fetch"
  /\ data = NullDoc
  /\ src = NoSrc
  /\ present = Ids
  /\ wrapped = {}
  /\ content = [i \in Ids |-> IF i \in RegionIds THEN Placeholder ELSE <<>>]
  /\ InitMt

NextMakeTable ==
  \/ MtCallDirect
  \/ MtHeadCell
  \/ MtHeadDone
  \/ MtRowStart
  \/ MtCell
  \/ MtRowEnd
  \/ MtReturn

SpecMakeTable == InitMakeTable /\ [][NextMakeTable]_vars

-----------------------------------------------------------------------------
(* makeTable called again and again, one earlier call's result kept *)

\* the caller keeps its own copy of a completed call's arguments and result
Snapshot ==
  /\ mtpc = "returned"
  /\ golden = <<>>
  /\ golden' = <<[h |-> headers, r |-> rows, t |-> result[1], calls |-> 0]>>
  /\ UNCHANGED <<pageVars, mtVars>>

\* a further call; the calls made since the snapshot are counted up to two
MtCallRepeat ==
  /\ mtpc \in {"idle", "returned"}
  /\ \E H \in SeqsUpTo({Str("#")}, MaxRepeat), R \in RowSeqs(MaxRepeat, MaxRepeat) :
       MtCall(H, R)
  /\ golden' =
       IF golden = <<>> THEN golden
       ELSE <<[golden[1] EXCEPT !.calls = IF @ < 2 THEN @ + 1 ELSE @]>>

NextRepeat ==
  \/ MtCallRepeat
  \/ Snapshot
  \/ MtHeadCell
  \/ MtHeadDone
  \/ MtRowStart
  \/ MtCell
  \/ MtRowEnd
  \/ MtReturn

SpecRepeat == InitMakeTable /\ [][NextRepeat]_vars

-----------------------------------------------------------------------------
(* Properties of makeTable *)

Returned == mtpc = "returned"

\* the rows a HeaderSet makes valid: same length as the header, scalar values
ValidRows ==
  \A i \in 1..Len(rows) :
    /\ Len(rows[i]) = Len(headers)
    /\ \A j \in 1..Len(rows[i]) : rows[i][j].t \in {"number", "string"}

\* C1: for rows that all have the header's length, the returned table has |H|
\* header cells and |R| body rows; header cell j shows H[j] and cell j of body
\* row i shows the string form of R[i][j], in input order.
C1_TableMirrorsInput ==
  (Returned /\ ValidRows) =>
    /\ Len(result[1].head) = Len(headers)
    /\ Len(result[1].body) = Len(rows)
    /\ \A j \in 1..Len(headers) : result[1].head[j] = headers[j].s
    /\ \A i \in 1..Len(rows) :
         /\ Len(result[1].body[i]) = Len(headers)
         /\ \A j \in 1..Len(headers) : result[1].body[i][j] = JsString(rows[i][j])

\* a returned table of one row with two different cells under a two-column header
C1_Witness ==
  /\ Returned
  /\ ValidRows
  /\ Len(headers) = 2
  /\ headers[1] # headers[2]
  /\ Len(rows) = 1
  /\ rows[1][1] # rows[1][2]

\* the text a cell shows for the value v: a scalar's string form, nothing for
\* undefined
CellText(v) == IF v.t = "undefined" THEN "" ELSE JsString(v)

\* C2: whatever the lengths, the call returns; body row i has exactly |R[i]|
\* cells showing R[i]'s values in order, and the header has exactly |H| cells.
C2_RaggedRowsKept ==
  Returned =>
    /\ Len(result[1].head) = Len(headers)
    /\ Len(result[1].body) = Len(rows)
    /\ \A i \in 1..Len(rows) :
         /\ Len(result[1].body[i]) = Len(rows[i])
         /\ \A j \in 1..Len(rows[i]) : result[1].body[i][j] = CellText(rows[i][j])

\* a returned table with one row shorter and one row longer than the header
C2_Witness ==
  /\ Returned
  /\ \E i \in 1..Len(rows) : Len(rows[i]) < Len(headers)
  /\ \E i \in 1..Len(rows) : Len(rows[i]) > Len(headers)

\* C8: from entry to return no step of makeTable changes its arguments, and no
\* step changes any element of the document: the table stays detached.
C8_MakeTableIsPure ==
  [][ /\ mtpc # "idle" => (headers' = headers /\ rows' = rows)
      /\ content' = content
      /\ present' = present ]_vars

\* a call that built header cells and two body rows has returned
C8_Witness ==
  /\ Returned
  /\ headers # <<>>
  /\ Len(rows) = 2
  /\ rows[1] # <<>>

\* C9: a call with the same headers and rows as an earlier call returns a table
\* with the same header texts and the same cell texts, whatever was called in
\* between.
C9_SameInputSameTable ==
  (Returned /\ golden # <<>> /\ golden[1].h = headers /\ golden[1].r = rows) =>
    result[1] = golden[1].t

\* the kept call has been repeated after another call, on non-empty input
C9_Witness ==
  /\ Returned
  /\ golden # <<>>
  /\ golden[1].calls = 2
  /\ golden[1].h = headers
  /\ golden[1].r = rows
  /\ headers # <<>>
  /\ rows # <<>>
  /\ rows[1] # <<>>

-----------------------------------------------------------------------------
(* Properties of the page load *)

\* the error message stands in the error-display element
ErrorShown ==
  /\ ContainerId \in present
  /\ content[ContainerId] = <<TextNode(ErrorMessage)>>

\* the region of section s is in the document
Live(s) == RegionId(s) \in present

\* the region of section s has a table among its children
HoldsTable(s) ==
  \E n \in 1..Len(content[RegionId(s)]) : content[RegionId(s)][n].kind = "table"

\* the region of section s holds one table and nothing else
HoldsOnlyTable(s) ==
  /\ Len(content[RegionId(s)]) = 1
  /\ content[RegionId(s)][1].kind = "table"

\* the second .then handler has run to its end, by return or by throw
Settled == pc \in {"done", "failed"} /\ ~data.isNull

\* the document leaves out the array of section s, or the object holding it
Lacks(d, s) ==
  CASE s = "ppg"    -> ~d.player_leaders.has \/ ~d.player_leaders.points_per_game.has
    [] s = "pts"    -> ~d.player_leaders.has \/ ~d.player_leaders.points_total.has
    [] s = "threes" -> ~d.player_leaders.has \/ ~d.player_leaders.three_pointers_made.has
    [] s = "teams"  -> ~d.team_leaders.has \/ ~d.team_leaders.offense_points_per_game.has

HeadTexts(s) == [j \in 1..Len(HeadersOf(s)) |-> HeadersOf(s)[j].s]

\* C3: a document that lacks the array of a section (or its parent object) never
\* takes the error path, and once the handler is over the section's region
\* holds a table with the full header row and no body row.
C3_MissingFieldsRenderEmpty ==
  \A s \in Sections :
    (~data.isNull /\ Lacks(data, s)) =>
      /\ pc \notin {"catch", "failed"}
      /\ (pc = "done" /\ Live(s)) =>
           content[RegionId(s)] = <<TableNode(Table(HeadTexts(s), <<>>))>>

\* the record lacks one of the keys
LacksKey(p) == \E k \in Keys : p[k] = Undef

\* C4: a record that lacks a key is never a fault: the error path is not taken,
\* and once the handler is over the section's table has a row for every record.
C4_MissingKeyNoFault ==
  \A s \in Sections :
    (\E k \in 1..Len(src[s]) : LacksKey(src[s][k])) =>
      /\ pc \notin {"catch", "failed"}
      /\ (pc = "done" /\ Live(s)) =>
           /\ HoldsOnlyTable(s)
           /\ Len(content[RegionId(s)][1].table.body) = Len(src[s])

\* C5: when the error message is shown, no leaderboard region holds a table.
C5_AllOrNothing ==
  ErrorShown => \A s \in Sections : Live(s) => ~HoldsTable(s)

\* C6: once the handler has run on a JSON object, every region holds exactly
\* one table and nothing else.
C6_ExactlyOneTable ==
  Settled => \A s \in Sections : Live(s) => HoldsOnlyTable(s)

\* what section s alone makes of its own array
OwnOutcome(s) ==
  IF MapThrows(s, src[s]) THEN <<>>
  ELSE <<TableNode(MakeTable(HeadersOf(s), MapRows(s, src[s])))>>

\* C7: once the handler is over, what a region holds is decided by its own
\* section's array alone, whatever the other sections' arrays are.
C7_SectionsIndependent ==
  Settled => \A s \in Sections : Live(s) => content[RegionId(s)] = OwnOutcome(s)

\* all of the records carry all of their keys
WellFormed(arr) == \A k \in 1..Len(arr) : ~LacksKey(arr[k])

\* the cell texts of the row of rank k for the well-formed record p
RowTexts(s, p, k) ==
  CASE s = "ppg" ->
         <<IntStr(k), p.player.s, p.team.s, ToFixed1(p.ppg.n) \o " ppg",
           NumStr(p.pts.n) \o " pts", NumStr(p.gp.n) \o " gp">>
    [] s = "pts" ->
         <<IntStr(k), p.player.s, p.team.s, NumStr(p.pts.n) \o " pts",
           NumStr(p.gp.n) \o " gp">>
    [] s = "threes" ->
         <<IntStr(k), p.player.s, p.team.s, NumStr(p.threes.n),
           NumStr(p.gp.n) \o " gp">>
    [] s = "teams" ->
         <<IntStr(k), p.team.s, ToFixed1(p.ppg.n) \o " ppg",
           NumStr(p.pts_for.n) \o " pts", NumStr(p.gp.n) \o " gp">>

\* C10: after a successful load, the table of a section with well-formed
\* records has one body row per record, row k is built from the k-th record
\* and starts with the rank k, and every row is as long as the header row.
C10_RowsFollowFeed ==
  \A s \in Sections :
    (pc = "done" /\ Live(s) /\ WellFormed(src[s])) =>
      /\ HoldsOnlyTable(s)
      /\ Len(content[RegionId(s)][1].table.body) = Len(src[s])
      /\ \A k \in 1..Len(src[s]) :
           /\ content[RegionId(s)][1].table.body[k][1] = IntStr(k)
           /\ content[RegionId(s)][1].table.body[k] = RowTexts(s, src[s][k], k)
           /\ Len(content[RegionId(s)][1].table.body[k]) =
                Len(content[RegionId(s)][1].table.head)

\* a successful load whose team section lists two different records, the
\* lower-scoring one first
C10_Witness ==
  /\ pc = "done"
  /\ Live("teams")
  /\ src["teams"] = <<Good2, Good1>>
  /\ HoldsOnlyTable("teams")

=============================================================================
